---- MODULE Spec2Model ----
(***************************************************************************)
(* Model of data/SRD/parse_items.py: the script that loads items-srd.json  *)
(* and writes every record to organized_items/<category>/<id>.json.        *)
(*                                                                         *)
(* Text (str values, file names, file contents) is a sequence of           *)
(* one-character strings.  A JSON value is a record [t, s, n, m]:          *)
(*   t = "str"  : the string s                                             *)
(*   t = "num"  : the non-negative integer n                               *)
(*   t = "null" : null                                                     *)
(*   t = "obj"  : the object whose members, in insertion order, are the    *)
(*                sequence m of [k |-> key text, v |-> value]              *)
(* A directory or file is named by its absolute path, a sequence of        *)
(* component names; <<>> is the root directory.                            *)
(***************************************************************************)
EXTENDS Integers, Sequences, FiniteSets, TLC

\* ------------------------------------------------------------------ bounds

\* Longest input array the model draws.
MaxItems == 3

\* ------------------------------------------------------------ JSON values

Str(s) == [t |-> "str", s |-> s, n |-> 0, m |-> <<>>]
Num(n) == [t |-> "num", s |-> <<>>, n |-> n, m |-> <<>>]
Null == [t |-> "null", s |-> <<>>, n |-> 0, m |-> <<>>]
Obj(m) == [t |-> "obj", s |-> <<>>, n |-> 0, m |-> m]
Mem(k, v) == [k |-> k, v |-> v]

\* Marks the absence of a key, of a file, of a value.
Absent == [t |-> "absent", s |-> <<>>, n |-> 0, m |-> <<>>]

Range(f) == {f[x] : x \in DOMAIN f}

\* dict.get(key, default) on an object.
Get(obj, key, default) ==
    IF \E x \in DOMAIN obj.m : obj.m[x].k = key
    THEN LET x == CHOOSE y \in DOMAIN obj.m : obj.m[y].k = key IN obj.m[x].v
    ELSE default

\* --------------------------------------------------------------- str ops

K_category == <<"c", "a", "t", "e", "g", "o", "r", "y">>
K_id == <<"i", "d">>
K_damage == <<"d", "a", "m", "a", "g", "e">>
S_misc == <<"m", "i", "s", "c">>
S_unknown_item == <<"u", "n", "k", "n", "o", "w", "n", "_", "i", "t", "e", "m">>
S_json == <<".", "j", "s", "o", "n">>
S_None == <<"N", "o", "n", "e">>

\* The text as it is.
SameText(s) == s

UpperToLower ==
    [c \in {"A", "B", "I", "O", "R", "W", "X"} |->
        CASE c = "A" -> "a" [] c = "B" -> "b" [] c = "I" -> "i" [] c = "O" -> "o"
          [] c = "R" -> "r" [] c = "W" -> "w" [] c = "X" -> "x"]

\* str.lower()
Lower(s) == [x \in DOMAIN s |-> IF s[x] \in DOMAIN UpperToLower THEN UpperToLower[s[x]] ELSE s[x]]

\* str.replace(' ', '_')
ReplaceSpaces(s) == [x \in DOMAIN s |-> IF s[x] = " " THEN "_" ELSE s[x]]

RECURSIVE Digits(_)
\* str(n) of a non-negative integer.
Digits(n) ==
    LET d == <<"0", "1", "2", "3", "4", "5", "6", "7", "8", "9">>[(n % 10) + 1]
    IN IF n < 10 THEN <<d>> ELSE Digits(n \div 10) \o <<d>>

\* format(v) inside an f-string.
Format(v) ==
    CASE v.t = "str" -> v.s
      [] v.t = "num" -> Digits(v.n)
      [] OTHER -> S_None

\* ------------------------------------------------------------- json.dump

\* Escapes nothing: what a writer that forgot to escape would emit.
NoEscape(c) == <<c>>

\* One character of a str, escaped as json.dump (ensure_ascii) escapes it.
EscapeChar(c) ==
    CASE c = "\"" -> <<"\\", "\"">>
      [] c = "\\" -> <<"\\", "\\">>
      [] c = "\n" -> <<"\\", "n">>
      [] OTHER -> <<c>>

RECURSIVE Escape(_)
Escape(s) == IF s = <<>> THEN <<>> ELSE EscapeChar(Head(s)) \o Escape(Tail(s))

DumpStr(s) == <<"\"">> \o Escape(s) \o <<"\"">>

\* A member's value: members of the records modelled are scalars.
DumpScalar(v) ==
    CASE v.t = "str" -> DumpStr(v.s)
      [] v.t = "num" -> Digits(v.n)
      [] OTHER -> <<"n", "u", "l", "l">>

RECURSIVE DumpMembers(_)
\* "key": value pairs, one per line at indentation 2, separated by ",".
DumpMembers(m) ==
    IF m = <<>> THEN <<>>
    ELSE <<"\n", " ", " ">> \o DumpStr(Head(m).k) \o <<":", " ">> \o DumpScalar(Head(m).v)
         \o (IF Len(m) > 1 THEN <<",">> ELSE <<>>) \o DumpMembers(Tail(m))

\* json.dump(item, out_file, indent=2): the text written.
Dump(v) ==
    IF v.t = "obj"
    THEN IF v.m = <<>> THEN <<"{", "}">>
         ELSE <<"{">> \o DumpMembers(v.m) \o <<"\n", "}">>
    ELSE DumpScalar(v)

\* ------------------------------------------------------------- json.load

ParseFail == [ok |-> FALSE, v |-> Absent, p |-> 0]
IsWs(c) == c \in {" ", "\n"}
IsDigit(c) == c \in {"0", "1", "2", "3", "4", "5", "6", "7", "8", "9"}
DigitVal(c) == CHOOSE d \in 0..9 : Digits(d) = <<c>>

RECURSIVE SkipWs(_, _)
SkipWs(t, p) == IF p <= Len(t) /\ IsWs(t[p]) THEN SkipWs(t, p + 1) ELSE p

RECURSIVE ScanStr(_, _, _)
\* The body of a string literal from position p (after the opening quote).
ScanStr(t, p, acc) ==
    IF p > Len(t) THEN ParseFail
    ELSE IF t[p] = "\"" THEN [ok |-> TRUE, v |-> Str(acc), p |-> p + 1]
    ELSE IF t[p] = "\\"
         THEN IF p + 1 > Len(t) THEN ParseFail
              ELSE IF t[p + 1] \in {"\"", "\\"} THEN ScanStr(t, p + 2, Append(acc, t[p + 1]))
              ELSE IF t[p + 1] = "n" THEN ScanStr(t, p + 2, Append(acc, "\n"))
              ELSE ParseFail
    ELSE IF t[p] = "\n" THEN ParseFail
    ELSE ScanStr(t, p + 1, Append(acc, t[p]))

RECURSIVE ScanNum(_, _, _)
ScanNum(t, p, acc) ==
    IF p <= Len(t) /\ IsDigit(t[p]) THEN ScanNum(t, p + 1, 10 * acc + DigitVal(t[p]))
    ELSE [ok |-> TRUE, v |-> Num(acc), p |-> p]

ParseScalar(t, p) ==
    IF p > Len(t) THEN ParseFail
    ELSE IF t[p] = "\"" THEN ScanStr(t, p + 1, <<>>)
    ELSE IF IsDigit(t[p]) THEN ScanNum(t, p, 0)
    ELSE IF p + 3 <= Len(t) /\ SubSeq(t, p, p + 3) = <<"n", "u", "l", "l">>
         THEN [ok |-> TRUE, v |-> Null, p |-> p + 4]
    ELSE ParseFail

RECURSIVE ParseMembers(_, _, _)
\* Members of an object from position p (at a key), up to the closing brace.
ParseMembers(t, p, acc) ==
    LET k == IF p <= Len(t) /\ t[p] = "\"" THEN ScanStr(t, p + 1, <<>>) ELSE ParseFail
        c == IF k.ok THEN SkipWs(t, k.p) ELSE 0
        v == IF k.ok /\ c <= Len(t) /\ t[c] = ":" THEN ParseScalar(t, SkipWs(t, c + 1))
             ELSE ParseFail
        e == IF v.ok THEN SkipWs(t, v.p) ELSE 0
        \* a later duplicate of a key replaces the earlier value, in place
        put == IF \E x \in DOMAIN acc : acc[x].k = k.v.s
               THEN [x \in DOMAIN acc |-> IF acc[x].k = k.v.s THEN Mem(k.v.s, v.v) ELSE acc[x]]
               ELSE Append(acc, Mem(k.v.s, v.v))
    IN IF ~v.ok \/ e > Len(t) THEN ParseFail
       ELSE IF t[e] = "}" THEN [ok |-> TRUE, v |-> Obj(put), p |-> e + 1]
       ELSE IF t[e] = "," THEN ParseMembers(t, SkipWs(t, e + 1), put)
       ELSE ParseFail

ParseValue(t, p) ==
    IF p <= Len(t) /\ t[p] = "{"
    THEN LET q == SkipWs(t, p + 1)
         IN IF q <= Len(t) /\ t[q] = "}" THEN [ok |-> TRUE, v |-> Obj(<<>>), p |-> q + 1]
            ELSE ParseMembers(t, q, <<>>)
    ELSE ParseScalar(t, p)

\* json.load of a whole document: the value, or Absent when the text is not
\* one JSON value.
Parse(t) ==
    LET r == ParseValue(t, SkipWs(t, 1))
    IN IF r.ok /\ SkipWs(t, r.p) = Len(t) + 1 THEN r.v ELSE Absent

\* ------------------------------------------------------------ filesystem

S_slash == <<"/">>
S_dot == <<".">>
S_dotdot == <<".", ".">>
base_dir == <<"o", "r", "g", "a", "n", "i", "z", "e", "d", "_", "i", "t", "e", "m", "s">>

\* The process's working directory.
Cwd == << <<"c", "w", "d">> >>

\* A file system: the set of its directories and the content of each file.
Fs(d, f) == [dirs |-> d, files |-> f]
Put(f, k, v) == [x \in DOMAIN f \cup {k} |-> IF x = k THEN v ELSE f[x]]
FsResult(e, fs) == [err |-> e, fs |-> fs]
WalkResult(e, p) == [err |-> e, p |-> p]

RECURSIVE SplitFrom(_, _, _)
SplitFrom(s, acc, cur) ==
    IF s = <<>> THEN Append(acc, cur)
    ELSE IF Head(s) = "/" THEN SplitFrom(Tail(s), Append(acc, cur), <<>>)
    ELSE SplitFrom(Tail(s), acc, Append(cur, Head(s)))

\* The components of a path name, empty ones included.
Components(p) == SplitFrom(p, <<>>, <<>>)

Front(s) == SubSeq(s, 1, Len(s) - 1)
Last(s) == s[Len(s)]

RECURSIVE StripTrailing(_)
\* Drops the empty components that trailing slashes leave.
StripTrailing(cs) == IF cs # <<>> /\ Last(cs) = <<>> THEN StripTrailing(Front(cs)) ELSE cs

\* Where the lookup of a path name starts.
StartDir(p) == IF p # <<>> /\ Head(p) = "/" THEN <<>> ELSE Cwd

RECURSIVE WalkDirs(_, _, _)
\* Path lookup through directories: every named component must be a directory.
WalkDirs(cur, cs, fs) ==
    IF cs = <<>> THEN WalkResult("ok", cur)
    ELSE LET c == Head(cs)
             nxt == Append(cur, c)
         IN IF c = <<>> \/ c = S_dot THEN WalkDirs(cur, Tail(cs), fs)
            ELSE IF c = S_dotdot
                 THEN WalkDirs(IF cur = <<>> THEN cur ELSE Front(cur), Tail(cs), fs)
            ELSE IF nxt \in fs.dirs THEN WalkDirs(nxt, Tail(cs), fs)
            ELSE IF nxt \in DOMAIN fs.files THEN WalkResult("ENOTDIR", nxt)
            ELSE WalkResult("ENOENT", nxt)

IsName(c) == c # <<>> /\ c # S_dot /\ c # S_dotdot

\* os.path.isdir
IsDir(p, fs) == p # <<>> /\ WalkDirs(StartDir(p), Components(p), fs).err = "ok"

\* os.path.exists
Exists(p, fs) ==
    \/ IsDir(p, fs)
    \/ /\ p # <<>>
       /\ IsName(Last(Components(p)))
       /\ LET w == WalkDirs(StartDir(p), Front(Components(p)), fs)
          IN w.err = "ok" /\ Append(w.p, Last(Components(p))) \in DOMAIN fs.files

\* os.mkdir(p)
Mkdir(p, fs) ==
    LET cs == StripTrailing(Components(p))
        w == WalkDirs(StartDir(p), Front(cs), fs)
        target == Append(w.p, Last(cs))
    IN IF p = <<>> THEN FsResult("ENOENT", fs)
       ELSE IF cs = <<>> THEN FsResult("EEXIST", fs)
       ELSE IF w.err # "ok" THEN FsResult(w.err, fs)
       ELSE IF ~IsName(Last(cs)) THEN FsResult("EEXIST", fs)
       ELSE IF target \in fs.dirs \/ target \in DOMAIN fs.files THEN FsResult("EEXIST", fs)
       ELSE FsResult("ok", Fs(fs.dirs \cup {target}, fs.files))

RECURSIVE LastSlash(_, _)
LastSlash(p, x) == IF x = 0 \/ p[x] = "/" THEN x ELSE LastSlash(p, x - 1)

RECURSIVE RStripSlash(_)
RStripSlash(p) == IF p # <<>> /\ Last(p) = "/" THEN RStripSlash(Front(p)) ELSE p

\* os.path.split
PathSplit(p) ==
    LET x == LastSlash(p, Len(p))
        head == SubSeq(p, 1, x)
    IN [head |-> IF RStripSlash(head) = <<>> THEN head ELSE RStripSlash(head),
        tail |-> SubSeq(p, x + 1, Len(p))]

\* a + b: the two names glued without a separator.
PathConcat(a, b) == a \o b

\* os.path.join(a, b)
PathJoin(a, b) ==
    IF b # <<>> /\ Head(b) = "/" THEN b
    ELSE IF a = <<>> \/ Last(a) = "/" THEN a \o b
    ELSE a \o S_slash \o b

RECURSIVE Makedirs(_, _)
\* os.makedirs(name, exist_ok=True)
Makedirs(name, fs) ==
    LET s1 == PathSplit(name)
        sp == IF s1.tail = <<>> THEN PathSplit(s1.head) ELSE s1
        up == sp.head # <<>> /\ sp.tail # <<>> /\ ~Exists(sp.head, fs)
        sub == IF up THEN Makedirs(sp.head, fs) ELSE FsResult("ok", fs)
        mk == Mkdir(name, sub.fs)
    IN IF up /\ sub.err \notin {"ok", "EEXIST"} THEN sub
       ELSE IF up /\ sp.tail = S_dot THEN FsResult("ok", sub.fs)
       ELSE IF mk.err = "ok" THEN mk
       ELSE IF IsDir(name, sub.fs) THEN FsResult("ok", sub.fs)
       ELSE FsResult(mk.err, sub.fs)

\* The folder made anew: whatever files were below it are gone.
MakedirsFresh(name, fs) ==
    LET r == Makedirs(name, fs)
        d == WalkDirs(StartDir(name), Components(name), r.fs).p
        kept == {f \in DOMAIN r.fs.files : Len(f) <= Len(d) \/ SubSeq(f, 1, Len(d)) # d}
    IN IF r.err # "ok" THEN r
       ELSE FsResult("ok", Fs(r.fs.dirs, [f \in kept |-> r.fs.files[f]]))

\* Line 24: os.makedirs(folder_path, exist_ok=True)
EnsureFolder(name, fs) == Makedirs(name, fs)

\* The file a path name denotes for open(): [err, p].
FileAt(p, fs) ==
    LET cs == Components(p)
        w == WalkDirs(StartDir(p), Front(cs), fs)
        target == Append(w.p, Last(cs))
    IN IF p = <<>> THEN WalkResult("ENOENT", <<>>)
       ELSE IF w.err # "ok" THEN w
       ELSE IF ~IsName(Last(cs)) \/ target \in fs.dirs THEN WalkResult("EISDIR", target)
       ELSE WalkResult("ok", target)

\* open(p, 'a'): creates the file, or leaves its content in place.
OpenKeep(p, fs) ==
    LET f == FileAt(p, fs)
    IN IF f.err # "ok" THEN FsResult(f.err, fs)
       ELSE IF f.p \in DOMAIN fs.files THEN FsResult("ok", fs)
       ELSE FsResult("ok", Fs(fs.dirs, Put(fs.files, f.p, <<>>)))

\* open(p, 'w'): creates the file, or truncates it.
OpenW(p, fs) ==
    LET f == FileAt(p, fs)
    IN IF f.err # "ok" THEN FsResult(f.err, fs)
       ELSE FsResult("ok", Fs(fs.dirs, Put(fs.files, f.p, <<>>)))

\* write() and close() on an open file f: the text goes after what the file
\* holds, which is nothing when OpenW opened it.
WriteFile(f, text, fs) == Fs(fs.dirs, Put(fs.files, f, fs.files[f] \o text))

\* ----------------------------------------------------------------- inputs

E_empty == Obj(<<>>)
E_unknown == Obj(<<Mem(K_id, Str(S_unknown_item)), Mem(K_damage, Str(<<"1", "d", "8">>))>>)
E_rare == Obj(<<Mem(K_category, Str(<<"R", "a", "r", "e", " ", "I", "t", "e", "m">>)),
                Mem(K_id, Str(<<"x">>))>>)
E_rare2 == Obj(<<Mem(K_category, Str(<<"r", "a", "r", "e", "_", "i", "t", "e", "m">>)),
                 Mem(K_id, Str(<<"x">>)), Mem(K_damage, Str(<<"\"", "\\">>))>>)
E_x == Obj(<<Mem(K_id, Str(<<"x">>))>>)
E_slash == Obj(<<Mem(K_category, Str(<<>>)), Mem(K_id, Str(<<"m", "i", "s", "c", "/", "x">>)),
                 Mem(K_damage, Num(7))>>)
E_noid == Obj(<<Mem(K_damage, Num(12))>>)
E_number == Num(5)
E_numcat == Obj(<<Mem(K_category, Num(5)), Mem(K_id, Str(<<"x">>))>>)

\* The array elements the model draws from.
Elements ==
    {E_empty, E_unknown, E_rare, E_rare2, E_x, E_slash, E_noid, E_number, E_numcat}

Arrays == UNION {[1..n -> Elements] : n \in 0..MaxItems}

InputFile(kind, arr) == [kind |-> kind, items |-> arr]

\* items-srd.json: absent, not JSON, or a JSON array.
Inputs == {InputFile("absent", <<>>), InputFile("invalid", <<>>)}
              \cup {InputFile("array", a) : a \in Arrays}

\* The records of an earlier input.
E_old_x == Obj(<<Mem(K_id, Str(<<"x">>)), Mem(K_damage, Str(<<"2", "d", "6">>))>>)
E_gone == Obj(<<Mem(K_category, Str(<<"O", "l", "d">>)), Mem(K_id, Str(<<"g", "o", "n", "e">>))>>)

D_base == Append(Cwd, base_dir)
F_x == <<"x">> \o S_json
F_gone == <<"g", "o", "n", "e">> \o S_json

\* No organized_items/ yet.
T_empty == Fs({<<>>, Cwd}, <<>>)

\* organized_items/ as an earlier run, on the input [E_old_x, E_gone], left it.
T_left ==
    Fs({<<>>, Cwd, D_base, Append(D_base, S_misc), Append(D_base, <<"o", "l", "d">>)},
       Put(Put(<<>>, <<Cwd[1], base_dir, S_misc, F_x>>, Dump(E_old_x)),
           <<Cwd[1], base_dir, <<"o", "l", "d">>, F_gone>>, Dump(E_gone)))

InitialTrees == {T_empty, T_left}

\* The orderings of an array.
Orderings(a) ==
    {[x \in DOMAIN a |-> a[f[x]]] :
        f \in {g \in [DOMAIN a -> DOMAIN a] : \A x, y \in DOMAIN a : g[x] = g[y] => x = y}}

\* ------------------------------------------------------------------ state

VARIABLES
    inputFile,    \* items-srd.json in the working directory
    fs,           \* the file system
    pc,           \* the statement the script is at
    items,        \* the loaded array
    i,            \* index in items of the loop variable item
    category,     \* line 19
    item_id,      \* line 20
    folder_path,  \* line 23
    file_path,    \* line 27
    out_file,     \* the file line 28 opened, <<>> when none is open
    out,          \* what the script printed
    err,          \* the exception that ended the script, "none" otherwise
    mode,         \* "first" run, "rerun" on its output, or "permuted" input
    fs0,          \* the file system when this run started
    fs1           \* the file system when the first run ended

vars == <<inputFile, fs, pc, items, i, category, item_id, folder_path, file_path,
          out_file, out, err, mode, fs0, fs1>>

locals == <<category, item_id, folder_path, file_path, out_file>>

Init ==
    /\ inputFile \in Inputs
    /\ fs \in InitialTrees
    /\ pc = "load"
    /\ items = <<>>
    /\ i = 0
    /\ category = <<>>
    /\ item_id = Absent
    /\ folder_path = <<>>
    /\ file_path = <<>>
    /\ out_file = <<>>
    /\ out = <<>>
    /\ err = "none"
    /\ mode = "first"
    /\ fs0 = fs
    /\ fs1 = fs

\* The exception e is noted and the loop goes on.
RaiseAndContinue(e) == pc' = "for" /\ err' = e

\* The exception e, caught nowhere, ends the script.
Raise(e) == pc' = "crashed" /\ err' = e

\* Lines 9-11 without the exit(): the script falls through to the loop.
LoadNoExit ==
    /\ pc = "load"
    /\ \/ /\ inputFile.kind = "absent"
          /\ out' = Append(out, "not found")
          /\ pc' = "for"
          /\ UNCHANGED <<items, err>>
       \/ /\ inputFile.kind = "array"
          /\ items' = inputFile.items
          /\ pc' = "for"
          /\ UNCHANGED <<out, err>>
    /\ UNCHANGED <<inputFile, fs, i, category, item_id, folder_path, file_path, out_file,
                   mode, fs0, fs1>>

\* Lines 6-11: open and parse items-srd.json.
Load ==
    /\ pc = "load"
    /\ \/ /\ inputFile.kind = "absent"
          /\ out' = Append(out, "not found")
          /\ pc' = "exited"
          /\ UNCHANGED <<items, err>>
       \/ /\ inputFile.kind = "invalid"
          /\ Raise("JSONDecodeError")
          /\ UNCHANGED <<items, out>>
       \/ /\ inputFile.kind = "array"
          /\ items' = inputFile.items
          /\ pc' = "for"
          /\ UNCHANGED <<out, err>>
    /\ UNCHANGED <<inputFile, fs, i, locals, mode, fs0, fs1>>

\* Line 17: the next item of the array.
ForNext ==
    /\ pc = "for"
    /\ i < Len(items)
    /\ i' = i + 1
    /\ pc' = "categorize"
    /\ UNCHANGED <<inputFile, fs, items, locals, out, err, mode, fs0, fs1>>

\* The category used as it is.
CategoryKept(cat) == cat

\* Line 19: .lower().replace(' ', '_')
Normalize(cat) == ReplaceSpaces(Lower(cat))

\* The array's first element.
FirstItem == items[1]

\* Line 17: item, the loop variable.
CurrentItem == items[i]

\* The id, with the category's default.
IdOrMisc(item) == Get(item, K_id, Str(S_misc))

\* Line 20: item.get('id', 'unknown_item')
IdOf(item) == Get(item, K_id, Str(S_unknown_item))

\* Lines 19-20: category and item_id of item.
Categorize ==
    /\ pc = "categorize"
    /\ LET item == CurrentItem
           cat == Get(item, K_category, Str(S_misc))
       IN IF item.t # "obj" \/ cat.t # "str"
          THEN /\ Raise("AttributeError")
               /\ UNCHANGED <<category, item_id>>
          ELSE /\ category' = Normalize(cat.s)
               /\ item_id' = IdOf(item)
               /\ pc' = "makedirs"
               /\ err' = err
    /\ UNCHANGED <<inputFile, fs, items, i, folder_path, file_path, out_file, out,
                   mode, fs0, fs1>>

\* Lines 23-24: the category's folder, created when missing.
MakeFolder ==
    /\ pc = "makedirs"
    /\ folder_path' = PathJoin(base_dir, category)
    /\ LET r == EnsureFolder(folder_path', fs)
       IN /\ fs' = r.fs
          /\ IF r.err = "ok" THEN pc' = "open" /\ err' = err ELSE Raise(r.err)
    /\ UNCHANGED <<inputFile, items, i, category, item_id, file_path, out_file, out,
                   mode, fs0, fs1>>

\* Line 24 fails for a reason outside the model (permission denied).
MakeFolderFault ==
    /\ pc = "makedirs"
    /\ folder_path' = PathJoin(base_dir, category)
    /\ Raise("EACCES")
    /\ UNCHANGED <<inputFile, fs, items, i, category, item_id, file_path, out_file, out,
                   mode, fs0, fs1>>

\* Lines 27-28: open the item's file for writing.
OpenFile ==
    /\ pc = "open"
    /\ file_path' = PathJoin(folder_path, Format(item_id) \o S_json)
    /\ LET r == OpenW(file_path', fs)
       IN /\ fs' = r.fs
          /\ IF r.err = "ok"
             THEN pc' = "dump" /\ err' = err /\ out_file' = FileAt(file_path', fs).p
             ELSE Raise(r.err) /\ out_file' = out_file
    /\ UNCHANGED <<inputFile, items, i, category, item_id, folder_path, out,
                   mode, fs0, fs1>>

\* Line 28 fails for a reason outside the model.
OpenFileFault ==
    /\ pc = "open"
    /\ file_path' = PathJoin(folder_path, Format(item_id) \o S_json)
    /\ Raise("EACCES")
    /\ UNCHANGED <<inputFile, fs, items, i, category, item_id, folder_path, out_file, out,
                   mode, fs0, fs1>>

\* Line 29 and the end of the with block: the item is written and the file closed.
DumpItem ==
    /\ pc = "dump"
    /\ fs' = WriteFile(out_file, Dump(CurrentItem), fs)
    /\ out_file' = <<>>
    /\ pc' = "for"
    /\ UNCHANGED <<inputFile, items, i, category, item_id, folder_path, file_path, out,
                   err, mode, fs0, fs1>>

\* What a write that fails part-way leaves of the text: a proper prefix of it,
\* here none of it or its first half.
PartialWrites(text) == {<<>>, SubSeq(text, 1, Len(text) \div 2)}

\* Line 29 fails part-way (disk full, I/O error): a prefix of the text is in the file.
DumpItemFault ==
    /\ pc = "dump"
    /\ \E part \in PartialWrites(Dump(CurrentItem)) : fs' = WriteFile(out_file, part, fs)
    /\ out_file' = <<>>
    /\ Raise("ENOSPC")
    /\ UNCHANGED <<inputFile, items, i, category, item_id, folder_path, file_path, out,
                   mode, fs0, fs1>>

\* Line 31: the loop is over.
Finish ==
    /\ pc = "for"
    /\ i = Len(items)
    /\ out' = Append(out, "success")
    /\ pc' = "done"
    /\ fs1' = IF mode = "first" THEN fs ELSE fs1
    /\ UNCHANGED <<inputFile, fs, items, i, locals, err, mode, fs0>>

\* A new process: nothing is loaded, nothing is bound, nothing is printed.
Fresh ==
    /\ pc' = "load"
    /\ items' = <<>>
    /\ i' = 0
    /\ category' = <<>>
    /\ item_id' = Absent
    /\ folder_path' = <<>>
    /\ file_path' = <<>>
    /\ out_file' = <<>>
    /\ out' = <<>>
    /\ err' = "none"

\* The script is run a second time, on the same input and on its own output.
Rerun ==
    /\ pc = "done"
    /\ mode = "first"
    /\ mode' = "rerun"
    /\ fs0' = fs
    /\ Fresh
    /\ UNCHANGED <<inputFile, fs, fs1>>

\* The script is run on the same records in another order, from the file
\* system the first run started from.
RunPermuted ==
    /\ pc = "done"
    /\ mode = "first"
    /\ mode' = "permuted"
    /\ \E a \in Orderings(inputFile.items) :
           /\ a # inputFile.items
           /\ inputFile' = InputFile("array", a)
    /\ fs' = fs0
    /\ Fresh
    /\ UNCHANGED <<fs0, fs1>>

Next ==
    \/ Load
    \/ ForNext
    \/ Categorize
    \/ MakeFolder
    \/ MakeFolderFault
    \/ OpenFile
    \/ OpenFileFault
    \/ DumpItem
    \/ DumpItemFault
    \/ Finish
    \/ Rerun
    \/ RunPermuted

Spec == Init /\ [][Next]_vars

\* ----------------------------------------------------------------- claims
\* The keys and the output path of a record as the specification words them
\* (sections 4.2 and 4.3), and the file that path denotes.

HasKey(e, k) == \E x \in DOMAIN e.m : e.m[x].k = k

LowerChar(c) == IF c \in DOMAIN UpperToLower THEN UpperToLower[c] ELSE c

CategoryKeyOf(e) ==
    IF HasKey(e, K_category)
    THEN LET c == Get(e, K_category, Absent).s
         IN [x \in DOMAIN c |-> IF c[x] = " " THEN "_" ELSE LowerChar(c[x])]
    ELSE S_misc

IdKeyOf(e) == IF HasKey(e, K_id) THEN Get(e, K_id, Absent).s ELSE S_unknown_item

PairOf(e) == <<CategoryKeyOf(e), IdKeyOf(e)>>

ValidElement(e) ==
    /\ e.t = "obj"
    /\ HasKey(e, K_category) => Get(e, K_category, Absent).t = "str"
    /\ HasKey(e, K_id) => Get(e, K_id, Absent).t = "str"

Absolute(p) == p # <<>> /\ Head(p) = "/"

\* organized_items/<category_key>, a later absolute name replacing what precedes it.
FolderText(e) ==
    IF Absolute(CategoryKeyOf(e)) THEN CategoryKeyOf(e)
    ELSE base_dir \o S_slash \o CategoryKeyOf(e)

\* organized_items/<category_key>/<id_key>.json
TargetText(e) ==
    IF Absolute(IdKeyOf(e)) THEN IdKeyOf(e) \o S_json
    ELSE FolderText(e) \o S_slash \o IdKeyOf(e) \o S_json

RECURSIVE LexWalk(_, _)
\* The path a name denotes once its empty, "." and ".." components are resolved.
LexWalk(cur, cs) ==
    IF cs = <<>> THEN cur
    ELSE IF Head(cs) = <<>> \/ Head(cs) = S_dot THEN LexWalk(cur, Tail(cs))
    ELSE IF Head(cs) = S_dotdot
         THEN LexWalk(IF cur = <<>> THEN cur ELSE Front(cur), Tail(cs))
    ELSE LexWalk(Append(cur, Head(cs)), Tail(cs))

Denoted(text) == LexWalk(StartDir(text), Components(text))

\* The directory and the file the output path of each element denotes, the
\* element's pair and its serialized form, tabulated.
FolderTable == [e \in Elements |-> Denoted(FolderText(e))]
TargetTable == [e \in Elements |-> Denoted(TargetText(e))]
PairTable == [e \in Elements |-> PairOf(e)]
DumpTable == [e \in Elements |-> Dump(e)]

Folder(e) == FolderTable[e]
Target(e) == TargetTable[e]
Text(e) == DumpTable[e]

\* String keys that name exactly one directory level and one file.
SafeKeys(e) ==
    /\ ValidElement(e)
    /\ "/" \notin Range(CategoryKeyOf(e))
    /\ "/" \notin Range(IdKeyOf(e))
    /\ CategoryKeyOf(e) \notin {<<>>, S_dot, S_dotdot}

Max(S) == CHOOSE y \in S : \A z \in S : z <= y

\* Among items 1..n: the last one sharing x's pair, the last one whose path
\* denotes the file f.
LastPair(x, n) == Max({y \in 1..n : PairTable[items[y]] = PairTable[items[x]]})
LastAt(f, n) == Max({y \in 1..n : Target(items[y]) = f})

Pairs == {PairTable[items[x]] : x \in DOMAIN items}
Targets == {Target(items[x]) : x \in DOMAIN items}

\* The files this run created or changed so far.
Changed == {f \in DOMAIN fs.files : f \notin DOMAIN fs0.files \/ fs.files[f] # fs0.files[f]}

\* The script is between two records, or past the last one.
AtRest == pc \in {"for", "done"}

IsPrefix(a, b) == Len(a) <= Len(b) /\ a = SubSeq(b, 1, Len(a))

\* C1 as stated: a complete run started on an empty tree leaves as many files
\* as the records have distinct (category_key, id_key) pairs.
C1_FilesEqualPairs ==
    (pc = "done" /\ fs0 = T_empty /\ \A x \in DOMAIN items : ValidElement(items[x]))
        => Cardinality(DOMAIN fs.files) = Cardinality(Pairs)

\* C1, amended: a complete run started on an empty tree leaves as many files
\* as the records' output paths denote distinct files; that is the number of
\* distinct pairs when no key holds a path separator and no category_key is
\* "", "." or "..".
C1_FilesEqualTargets ==
    (pc = "done" /\ fs0 = T_empty /\ \A x \in DOMAIN items : ValidElement(items[x]))
        => /\ DOMAIN fs.files = Targets
           /\ Cardinality(DOMAIN fs.files) = Cardinality(Targets)
           /\ (\A x \in DOMAIN items : SafeKeys(items[x]))
                  => Cardinality(DOMAIN fs.files) = Cardinality(Pairs)

\* A run from an empty tree has ended whose three records, all with safe keys,
\* collapsed into two files.
C1_Witness ==
    /\ pc = "done"
    /\ fs0 = T_empty
    /\ Len(items) = 3
    /\ \A x \in DOMAIN items : ValidElement(items[x]) /\ SafeKeys(items[x])
    /\ Cardinality(Pairs) = 2
    /\ Cardinality(DOMAIN fs.files) = 2

\* C2 as stated: after each record is written, the file at its output path
\* holds the serialized form of the most recently processed record with the
\* same (category_key, id_key) pair.
C2_LastOfPairRemains ==
    AtRest =>
        \A x \in 1..i :
            /\ Target(items[x]) \in DOMAIN fs.files
            /\ fs.files[Target(items[x])] = Text(items[LastPair(x, i)])

\* C2, amended: after each record is written, the file at its output path
\* holds the serialized form of the most recently processed record whose path
\* denotes that file; that is the most recent record with the same pair when
\* the keys of the processed records are strings without path separator and
\* no category_key is "", "." or "..".
C2_LastAtPathRemains ==
    AtRest =>
        /\ \A x \in 1..i :
               /\ Target(items[x]) \in DOMAIN fs.files
               /\ Target(items[x]) \notin fs.dirs
               /\ fs.files[Target(items[x])] = Text(items[LastAt(Target(items[x]), i)])
        /\ (\A x \in 1..i : SafeKeys(items[x]))
               => \A x \in 1..i : fs.files[Target(items[x])] = Text(items[LastPair(x, i)])

\* Two different records with the same pair have been written, and the file
\* holds the second.
C2_Witness ==
    /\ pc = "for"
    /\ i = 2
    /\ PairTable[items[1]] = PairTable[items[2]]
    /\ Text(items[1]) # Text(items[2])
    /\ fs.files[Target(items[1])] = Text(items[2])

\* C3: with items-srd.json absent the script prints the not-found error and
\* stops: the file system stays as it was, no exception is raised and the
\* success message is never printed.
C3_AbsentInputWritesNothing ==
    inputFile.kind = "absent" =>
        /\ pc \in {"load", "exited"}
        /\ fs = fs0
        /\ err = "none"
        /\ "success" \notin Range(out)
        /\ pc = "exited" => out = <<"not found">>

\* The script has exited on an absent input, next to a tree an earlier run left.
C3_Witness ==
    /\ inputFile.kind = "absent"
    /\ pc = "exited"
    /\ fs = T_left
    /\ out = <<"not found">>

\* C4 as stated: the directory a record's file is written into is
\* organized_items/<normalized category>, for every record.
C4_WrittenIntoCategory ==
    pc = "dump" => Front(out_file) = Folder(items[i])

\* C4, amended: category is 'misc' or the record's category lowercased with
\* spaces replaced by underscores, and the directory the record's file is
\* written into is organized_items/<that category> for every record whose
\* id_key holds no path separator.
C4_WrittenIntoCategoryUnlessSlash ==
    /\ pc \in {"makedirs", "open", "dump"} => category = CategoryKeyOf(items[i])
    /\ pc \in {"open", "dump"} => Folder(items[i]) \in fs.dirs
    /\ (pc = "dump" /\ "/" \notin Range(IdKeyOf(items[i])))
           => Front(out_file) = Folder(items[i])

\* The file of the 'Rare Item' record is open under organized_items/rare_item.
C4_Witness ==
    /\ pc = "dump"
    /\ items[i] = E_rare
    /\ Front(out_file) = Append(D_base, <<"r", "a", "r", "e", "_", "i", "t", "e", "m">>)

NoId(e) == e.t = "obj" /\ ~HasKey(e, K_id)

\* The file unknown_item.json in the record's category directory.
UnknownFile(e) == Append(Folder(e), S_unknown_item \o S_json)

\* The records that lack an id and share e's category_key.
NoIdPeers(e) ==
    {y \in DOMAIN items : NoId(items[y]) /\ CategoryKeyOf(items[y]) = CategoryKeyOf(e)}

\* C5 as stated: a record without id goes to unknown_item.json in its category
\* directory, and when several records of one category_key lack an id, the
\* last of them in input order is what the file holds at the end of the run.
C5_LastWithoutIdRemains ==
    pc = "done" =>
        \A x \in DOMAIN items :
            NoId(items[x]) =>
                /\ UnknownFile(items[x]) \in DOMAIN fs.files
                /\ Cardinality(NoIdPeers(items[x])) > 1
                       => fs.files[UnknownFile(items[x])]
                              = Text(items[Max(NoIdPeers(items[x]))])

\* C5, amended: a record without id goes to unknown_item.json in its category
\* directory; at the end of the run the file holds the last record in input
\* order whose path denotes that file, which is the last record lacking an id
\* unless a record with an id (the string 'unknown_item', or one with a path
\* separator) denotes the same file.
C5_LastAtUnknownRemains ==
    /\ (pc \in {"makedirs", "open", "dump"} /\ NoId(items[i]))
           => item_id = Str(S_unknown_item)
    /\ (pc = "dump" /\ NoId(items[i])) => out_file = UnknownFile(items[i])
    /\ pc = "done" =>
        \A x \in DOMAIN items :
            NoId(items[x]) =>
                LET f == UnknownFile(items[x])
                IN /\ f \in DOMAIN fs.files
                   /\ fs.files[f] = Text(items[LastAt(f, Len(items))])
                   /\ (\A y \in DOMAIN items : Target(items[y]) = f => NoId(items[y]))
                          => fs.files[f] = Text(items[Max(NoIdPeers(items[x]))])

\* Two different records without id and with the same category_key were
\* processed, and unknown_item.json holds the second.
C5_Witness ==
    /\ pc = "done"
    /\ Len(items) = 2
    /\ NoId(items[1]) /\ NoId(items[2])
    /\ items[1] # items[2]
    /\ UnknownFile(items[1]) = UnknownFile(items[2])
    /\ fs.files[UnknownFile(items[1])] = Text(items[2])

\* C6: at the end of a run, parsing the file a record was written to gives
\* back the last record written to it, member for member.
C6_RoundTrip ==
    pc = "done" =>
        \A x \in DOMAIN items :
            /\ Target(items[x]) \in DOMAIN fs.files
            /\ Parse(fs.files[Target(items[x])])
                   = items[LastAt(Target(items[x]), Len(items))]

\* A record whose text needs escaping was the last written to its file, and
\* the file parses back to it.
C6_Witness ==
    /\ pc = "done"
    /\ \E x \in DOMAIN items :
           /\ items[x] = E_rare2
           /\ LastAt(Target(E_rare2), Len(items)) = x
           /\ Parse(fs.files[Target(E_rare2)]) = E_rare2
           /\ fs.files[Target(E_rare2)] # Text(E_rare)

\* C7 as stated: a complete run on a permutation of the array leaves the same
\* tree as the run on the array.
C7_OrderIrrelevant ==
    (mode = "permuted" /\ pc = "done") => fs = fs1

\* C7, amended: a complete run on a permutation of the array leaves the same
\* directories and the same file paths, and the same content in every file
\* but those that two or more differing records are written to.
C7_OrderIrrelevantButCollisions ==
    (mode = "permuted" /\ pc = "done") =>
        /\ fs.dirs = fs1.dirs
        /\ DOMAIN fs.files = DOMAIN fs1.files
        /\ \A f \in DOMAIN fs.files :
               Cardinality({items[x] : x \in {y \in DOMAIN items : Target(items[y]) = f}}) <= 1
                   => fs.files[f] = fs1.files[f]

\* A run on a reordered array of records with distinct files has ended with
\* the tree of the first run.
C7_Witness ==
    /\ mode = "permuted"
    /\ pc = "done"
    /\ fs0 = T_empty
    /\ Len(items) >= 2
    /\ Cardinality(Targets) = Len(items)
    /\ fs = fs1

\* C8 as stated: after a complete run the tree holds exactly the files derived
\* from the current input.
C8_Regenerated ==
    pc = "done" => DOMAIN fs.files \subseteq Targets

\* C8, amended: the output tree is merged, not regenerated: after a complete
\* run it holds the files derived from the current input and every file and
\* directory that was there before, and a file no current record is written
\* to keeps its content.
C8_Merged ==
    pc = "done" =>
        /\ fs0.dirs \subseteq fs.dirs
        /\ DOMAIN fs.files = DOMAIN fs0.files \cup Targets
        /\ \A f \in DOMAIN fs0.files : f \notin Targets => fs.files[f] = fs0.files[f]

\* A run on a tree an earlier run left has ended, it wrote a file, and the
\* stale files are still there.
C8_Witness ==
    /\ pc = "done"
    /\ mode = "first"
    /\ fs0 = T_left
    /\ Changed # {}
    /\ \E f \in DOMAIN fs.files : f \notin Targets /\ fs.files[f] = T_left.files[f]
    /\ \E f \in DOMAIN T_left.files : f \in Targets /\ Len(f) = 4 /\ f[3] = S_misc

\* C9 as stated: when processing the k-th record faults, the script dies,
\* prints no success message, has written nothing for a later record, and the
\* files of records 1..k-1 hold the content they were given.
C9_EarlierFilesIntact ==
    pc = "crashed" =>
        /\ "success" \notin Range(out)
        /\ Changed \subseteq {Target(items[x]) : x \in 1..i}
        /\ \A x \in 1..(i - 1) :
               /\ Target(items[x]) \in DOMAIN fs.files
               /\ fs.files[Target(items[x])] = Text(items[LastAt(Target(items[x]), i - 1)])

\* C9, amended: records are written in input order and a fault ends the
\* script at that record, without success message and with nothing written
\* for a later record; the files of records 1..k-1 hold the content they were
\* given, except the file of the k-th record when the fault is a failed write
\* to it: that file, already truncated, is left with the part of the k-th
\* record's text that reached it.
C9_EarlierFilesIntactButCurrent ==
    /\ err # "none" => pc = "crashed"
    /\ "success" \in Range(out) => pc = "done" /\ err = "none"
    /\ Changed \subseteq {Target(items[x]) : x \in 1..i}
    /\ pc = "crashed" =>
           \A x \in 1..(i - 1) :
               LET f == Target(items[x])
               IN /\ f \in DOMAIN fs.files
                  /\ IF err = "ENOSPC" /\ f = Target(items[i])
                     THEN IsPrefix(fs.files[f], Text(items[i]))
                     ELSE fs.files[f] = Text(items[LastAt(f, i - 1)])

\* The script died on its third record, for a reason of that record, with the
\* files of the first two in place.
C9_Witness ==
    /\ pc = "crashed"
    /\ i = 3
    /\ err \in {"AttributeError", "ENOENT", "EACCES"}
    /\ Target(items[1]) # Target(items[2])
    /\ fs.files[Target(items[1])] = Text(items[1])
    /\ fs.files[Target(items[2])] = Text(items[2])

\* C10: a second complete run on the same input, on the tree the first run
\* left, leaves that tree as it is.
C10_RerunIdempotent ==
    (mode = "rerun" /\ pc = "done") => fs = fs1

\* A second run on an array with a collision has ended.
C10_Witness ==
    /\ mode = "rerun"
    /\ pc = "done"
    /\ Len(items) = 3
    /\ Cardinality(Targets) = 2
    /\ fs = fs1

====
